---- MODULE Spec2Model ----
(***************************************************************************)
(* State-machine model of the chat API in src/api/chat.py: the module-     *)
(* level configuration, the memoised initialize_team, the /health and      *)
(* /api/chat handlers, the request validator and the response-tag          *)
(* extraction.                                                             *)
(*                                                                         *)
(* Conventions.                                                            *)
(*  - Python None is the record None for objects and the string NoneStr    *)
(*    for optional strings; Truthy(s) is Python truthiness of an optional  *)
(*    string.                                                              *)
(*  - The model's reply text (ai_content) is a sequence of one-character   *)
(*    strings, so `in`, startswith, slicing and strip are computed         *)
(*    character by character.                                              *)
(*  - A request message is the record [lead, body, trail]: `lead`          *)
(*    whitespace characters, then `body` characters that start and end     *)
(*    with a non-whitespace character, then `trail` whitespace characters. *)
(*    This keeps the real 5000-character limit in the model.               *)
(*  - The handlers are `async def` without any await, so one handler runs  *)
(*    to completion before the event loop starts the next: at most one     *)
(*    request is in flight, and its steps are the values of pc.            *)
(*  - One process is modelled; the table has no writer but this process.   *)
(*  - teams_built and kbs_built count completed Team(...) and              *)
(*    Knowledge(...) constructions; a call that raises constructs nothing. *)
(***************************************************************************)
EXTENDS Naturals, Sequences, FiniteSets

VARIABLES
    GROQ_API_KEY,           \* chat.py:53
    OPENAI_API_KEY,         \* chat.py:52
    SUPABASE_DB_URL,        \* chat.py:55-69
    supabase,               \* chat.py:75-81, the client or None
    agno_imported,          \* chat.py:15-32, FALSE when the dummy classes are in use
    _team_cache,            \* chat.py:84
    _knowledge_base_cache,  \* chat.py:85
    chat_messages,          \* the chat_messages table, in created_at order
    phase,                  \* "boot" before the startup event, then "serving"
    served,                 \* requests accepted so far
    kind,                   \* the request in flight: "none", "root", "health", "chat"
    pc,                     \* its position
    message,                \* req.message
    conversation_id,        \* req.conversation_id
    team,                   \* chat_handler's local team
    history_context,        \* the turns placed in the prompt (msgs), oldest first
    full_prompt,            \* what team.run was given
    ai_raw,                 \* response.content as team.run returned it
    agent_tag,              \* chat_handler's agent_tag
    ai_content,             \* chat_handler's ai_content after the clean-up
    response,               \* what the client receives
    \* history variables, for stating the properties
    init_result,            \* what the request's initialize_team call returned
    teams_built,            \* Team(...) constructions so far
    kbs_built,              \* Knowledge(...) constructions so far
    hist_data,              \* hist.data as the store returned it
    trace,                  \* the external calls of the request in flight, in order
    rows0                   \* Len(chat_messages) when the request began

vars == <<GROQ_API_KEY, OPENAI_API_KEY, SUPABASE_DB_URL, supabase, agno_imported,
          _team_cache, _knowledge_base_cache, chat_messages, phase, served, kind,
          pc, message, conversation_id, team, history_context, full_prompt,
          ai_raw, agent_tag, ai_content, response, init_result, teams_built,
          kbs_built, hist_data, trace, rows0>>

config_vars == <<GROQ_API_KEY, OPENAI_API_KEY, SUPABASE_DB_URL, supabase, agno_imported>>

cache_vars == <<_team_cache, _knowledge_base_cache, teams_built, kbs_built>>

-----------------------------------------------------------------------------
(* Bounds *)

MaxRequests == 2

MaxChunks == 3

MaxStored == 6

(* Program constants *)

MAX_MESSAGE_LENGTH == 5000

USER_CONTENT_LIMIT == 1000

AI_CONTENT_LIMIT == 2000

HISTORY_LIMIT == 6

ERROR_MESSAGE_LIMIT == 200

-----------------------------------------------------------------------------
(* Python values *)

None == [none |-> TRUE]

NoneStr == "None"

Truthy(s) == s # NoneStr /\ s # ""

Min(a, b) == IF a <= b THEN a ELSE b

Reverse(s) == [i \in 1..Len(s) |-> s[Len(s) + 1 - i]]

Take(s, n) == SubSeq(s, 1, Min(Len(s), n))

Drop(s, n) == SubSeq(s, n + 1, Len(s))

-----------------------------------------------------------------------------
(* Character strings: str.startswith, `in`, str.strip *)

Whitespace == {" ", "\t", "\n"}

StartsWith(s, t) == Len(t) <= Len(s) /\ SubSeq(s, 1, Len(t)) = t

Contains(s, t) == \E i \in 0..(Len(s) - Len(t)) : SubSeq(s, i + 1, i + Len(t)) = t

RECURSIVE LStripChars(_, _)
LStripChars(s, cs) ==
    IF s # <<>> /\ Head(s) \in cs THEN LStripChars(Tail(s), cs) ELSE s

StripChars(s, cs) == Reverse(LStripChars(Reverse(LStripChars(s, cs)), cs))

StrStrip(s) == StripChars(s, Whitespace)

RECURSIVE Flatten(_)
Flatten(ss) == IF ss = <<>> THEN <<>> ELSE Head(ss) \o Flatten(Tail(ss))

TAGS == << <<"[", "[", "T", "E", "C", "H", "]", "]">>,
           <<"[", "[", "D", "A", "T", "A", "]", "]">>,
           <<"[", "[", "D", "O", "C", "S", "]", "]">>,
           <<"[", "[", "M", "E", "M", "O", "R", "Y", "]", "]">>,
           <<"[", "[", "T", "E", "A", "M", "]", "]">> >>

DEFAULT_TAG == <<"T", "E", "A", "M">>

(* AgentTag looking for the marker at the beginning of the text only *)
AgentTagPrefixOnly(content) ==
    LET hits == {i \in 1..Len(TAGS) : StartsWith(content, TAGS[i])}
    IN  IF hits = {} THEN DEFAULT_TAG
        ELSE StripChars(TAGS[CHOOSE i \in hits : \A j \in hits : i <= j], {"[", "]"})

(* chat.py:268-273: the first marker of the vocabulary, in the list's order, that
   occurs anywhere in the text names the agent; "TEAM" when none occurs. *)
AgentTag(content) ==
    LET hits == {i \in 1..Len(TAGS) : Contains(content, TAGS[i])}
    IN  IF hits = {} THEN DEFAULT_TAG
        ELSE StripChars(TAGS[CHOOSE i \in hits : \A j \in hits : i <= j], {"[", "]"})

(* str.replace(tag, "", 1): the text without the first occurrence of t *)
RemoveFirst(s, t) ==
    LET at == {i \in 0..(Len(s) - Len(t)) : SubSeq(s, i + 1, i + Len(t)) = t}
    IN  IF at = {} THEN s
        ELSE LET i == CHOOSE k \in at : \A j \in at : k <= j
             IN  SubSeq(s, 1, i) \o SubSeq(s, i + Len(t) + 1, Len(s))

(* CleanContent cutting the marker wherever it occurs *)
CleanContentAnywhere(content) ==
    LET hits == {i \in 1..Len(TAGS) : Contains(content, TAGS[i])}
    IN  IF hits = {} THEN content
        ELSE StrStrip(RemoveFirst(content, TAGS[CHOOSE i \in hits : \A j \in hits : i <= j]))

(* chat.py:275-279: a marker is cut only from the beginning of the text, and the
   rest is stripped of surrounding whitespace; otherwise the text is unchanged. *)
CleanContent(content) ==
    LET hits == {i \in 1..Len(TAGS) : StartsWith(content, TAGS[i])}
    IN  IF hits = {} THEN content
        ELSE StrStrip(Drop(content, Len(TAGS[CHOOSE i \in hits : \A j \in hits : i <= j])))

(* The replies considered for the extraction: up to MaxChunks pieces, each
   a marker, a space, a letter or a stray bracket. *)
Chunks == {TAGS[i] : i \in 1..Len(TAGS)} \cup {<<" ">>, <<"a">>, <<"[">>}

BoundedTexts == {Flatten(cs) : cs \in UNION {[1..n -> Chunks] : n \in 0..MaxChunks}}

(* The replies team.run gives in the request-handling specification. *)
RunOutputs == {TAGS[1] \o <<" ", "a">>, <<"a">>, <<"a">> \o TAGS[2]}

-----------------------------------------------------------------------------
(* Request messages: [lead, body, trail] *)

StrLen(m) == m.lead + m.body + m.trail

MsgStrip(m) == [lead |-> 0, body |-> m.body, trail |-> 0]

MsgSlice(m, n) ==
    LET l == Min(m.lead, n)
        b == Min(m.body, n - l)
    IN  [lead |-> l, body |-> b, trail |-> Min(m.trail, n - l - b)]

Messages == [lead : {0, 1}, body : {0, 1, MAX_MESSAGE_LENGTH, MAX_MESSAGE_LENGTH + 1}, trail : {0, 1}]

ConversationIds == {NoneStr, "", "c1", "c2"}

(* validate_message without the length check *)
validate_messageNoLimit(v) ==
    IF StrLen(v) = 0 \/ StrLen(MsgStrip(v)) = 0
    THEN [ok |-> FALSE, error |-> "Message cannot be empty", value |-> v]
    ELSE [ok |-> TRUE, error |-> "", value |-> MsgStrip(v)]

(* chat.py:185-191: the length is measured after strip() *)
validate_message(v) ==
    IF StrLen(v) = 0 \/ StrLen(MsgStrip(v)) = 0
    THEN [ok |-> FALSE, error |-> "Message cannot be empty", value |-> v]
    ELSE IF StrLen(MsgStrip(v)) > MAX_MESSAGE_LENGTH
    THEN [ok |-> FALSE, error |-> "Message too long", value |-> v]
    ELSE [ok |-> TRUE, error |-> "", value |-> MsgStrip(v)]

NoMessage == [lead |-> 0, body |-> 0, trail |-> 0]
-----------------------------------------------------------------------------
(* Module-level configuration, chat.py:47-81 *)

(* An environment variable: unset, set to the empty string, or set. *)
EnvValues == {NoneStr, "", "set"}

(* The API keys: unset or set (an empty key is falsy like an unset one). *)
KeyValues == {NoneStr, "set"}

(* os.environ.get(name, default): the default only when the variable is unset *)
EnvGet(value, default) == IF value = NoneStr THEN default ELSE value

(* chat.py:55-69 *)
DbUrl(postgres_url, user, password, host, database) ==
    IF Truthy(postgres_url) THEN "postgresql://direct"
    ELSE IF Truthy(EnvGet(user, "postgres")) /\ Truthy(password) /\ Truthy(host)
            /\ Truthy(EnvGet(database, "postgres"))
    THEN "postgresql://composed"
    ELSE NoneStr

(* chat.py:75-81: create_client is undefined when the imports failed (NameError,
   caught); otherwise it may fail for its own reasons (caught as well). *)
SupabaseClient(url, key, imported, create_ok) ==
    IF Truthy(url) /\ Truthy(key) /\ imported /\ create_ok
    THEN [client |-> "supabase"]
    ELSE None

-----------------------------------------------------------------------------
(* The chat_messages table *)

UserContent(m) == [msg |-> m, text |-> <<>>]

AiContent(t) == [msg |-> NoMessage, text |-> t]

Row(cid, role, content, at) ==
    [conversation_id |-> cid, role |-> role, content |-> content, created_at |-> at]

(* insert(turn).execute(): the store appends the row and assigns created_at *)
Insert(table, turn) ==
    Append(table, Row(turn.conversation_id, turn.role, turn.content, Len(table) + 1))

(* select("*").eq("conversation_id", cid).order("created_at", desc=True).limit(n) *)
Select(table, cid, n) ==
    Take(Reverse(SelectSeq(table, LAMBDA r : r.conversation_id = cid)), n)

(* Rows left by earlier processes: MaxStored turns of c1 and one of c2. *)
StoredRows ==
    [i \in 1..(MaxStored + 1) |->
        Row(IF i = 2 THEN "c2" ELSE "c1",
            IF i % 2 = 1 THEN "user" ELSE "ai",
            IF i % 2 = 1 THEN UserContent([lead |-> 0, body |-> i, trail |-> 0])
                         ELSE AiContent([k \in 1..i |-> "a"]),
            i)]

-----------------------------------------------------------------------------
(* initialize_team, chat.py:87-179 *)

Exception(type, len) == [type |-> type, len |-> len]

NoException == Exception("", 0)

Agent(name, role, knowledge) ==
    [name |-> name, role |-> role, knowledge |-> knowledge,
     search_knowledge |-> knowledge # None]

Members(knowledge_base) ==
    << Agent("Tech", "Developer", None), Agent("Data", "Analyst", None),
       Agent("Docs", "Writer", None) >>
    \o (IF knowledge_base # None
        THEN << Agent("Memory", "Historian", knowledge_base) >> ELSE << >>)

Raised(e) ==
    [raised |-> e, team |-> None, kb |-> None, hit |-> FALSE,
     cache_team |-> _team_cache, cache_kb |-> _knowledge_base_cache,
     teams |-> teams_built, kbs |-> kbs_built]

Built(knowledge_base) ==
    LET t == [oid |-> teams_built + 1, members |-> Members(knowledge_base)]
    IN  [raised |-> NoException, team |-> t, kb |-> knowledge_base, hit |-> FALSE,
         cache_team |-> t, cache_kb |-> knowledge_base,
         teams |-> teams_built + 1,
         kbs |-> IF knowledge_base # None THEN kbs_built + 1 ELSE kbs_built]

(* Construct building the knowledge base without looking at SUPABASE_DB_URL *)
ConstructNoUrlCheck(kb_ok) ==
    IF ~Truthy(GROQ_API_KEY) THEN Raised(Exception("RuntimeError", 24))
    ELSE IF ~agno_imported THEN Raised(Exception("TypeError", 26))
    ELSE IF Truthy(OPENAI_API_KEY) /\ kb_ok
    THEN Built([oid |-> kbs_built + 1, db_url |-> SUPABASE_DB_URL,
                table_name |-> "agent_knowledge"])
    ELSE Built(None)

(* chat.py:94-179, the body below the cache check. kb_ok: whether PgVector(...)
   and Knowledge(...) succeed when they are attempted (a failure is caught at
   chat.py:119). With the dummy classes of chat.py:26-31 in use,
   Groq(id=..., api_key=...) raises TypeError. *)
Construct(kb_ok) ==
    IF ~Truthy(GROQ_API_KEY) THEN Raised(Exception("RuntimeError", 24))
    ELSE IF ~agno_imported THEN Raised(Exception("TypeError", 26))
    ELSE IF Truthy(SUPABASE_DB_URL) /\ Truthy(OPENAI_API_KEY) /\ kb_ok
    THEN Built([oid |-> kbs_built + 1, db_url |-> SUPABASE_DB_URL,
                table_name |-> "agent_knowledge"])
    ELSE Built(None)

(* initialize_team without the cache check *)
initialize_teamNoCache(kb_ok) == Construct(kb_ok)

(* chat.py:87-92: the cached pair when there is one *)
initialize_team(kb_ok) ==
    IF _team_cache # None
    THEN [raised |-> NoException, team |-> _team_cache, kb |-> _knowledge_base_cache,
          hit |-> TRUE, cache_team |-> _team_cache, cache_kb |-> _knowledge_base_cache,
          teams |-> teams_built, kbs |-> kbs_built]
    ELSE Construct(kb_ok)

NotCalled == [called |-> FALSE]

Called(o) ==
    [called |-> TRUE, raised |-> o.raised, team |-> o.team, kb |-> o.kb, hit |-> o.hit]

(* The assignments initialize_team makes to the module's globals. *)
StoreCaches(o) ==
    /\ _team_cache' = o.cache_team
    /\ _knowledge_base_cache' = o.cache_kb
    /\ teams_built' = o.teams
    /\ kbs_built' = o.kbs
    /\ init_result' = Called(o)
-----------------------------------------------------------------------------
(* Initial state: the module has been imported, nothing has run yet. *)

NoResponse == [status |-> 0]

NoPrompt == [history |-> <<>>, query |-> NoMessage]

IdleLocals ==
    /\ kind = "none"
    /\ pc = "idle"
    /\ message = NoMessage
    /\ conversation_id = NoneStr
    /\ team = None
    /\ history_context = <<>>
    /\ full_prompt = NoPrompt
    /\ ai_raw = <<>>
    /\ agent_tag = <<>>
    /\ ai_content = <<>>
    /\ response = NoResponse
    /\ init_result = NotCalled
    /\ hist_data = <<>>
    /\ trace = <<>>
    /\ rows0 = Len(chat_messages)

Init ==
    /\ \E postgres_url \in EnvValues, user \in EnvValues, password \in EnvValues,
          host \in EnvValues, database \in EnvValues :
            SUPABASE_DB_URL = DbUrl(postgres_url, user, password, host, database)
    /\ GROQ_API_KEY \in KeyValues
    /\ OPENAI_API_KEY \in KeyValues
    /\ agno_imported \in BOOLEAN
    /\ \E url \in EnvValues, key \in EnvValues, create_ok \in BOOLEAN :
            supabase = SupabaseClient(url, key, agno_imported, create_ok)
    /\ _team_cache = None
    /\ _knowledge_base_cache = None
    /\ teams_built = 0
    /\ kbs_built = 0
    /\ chat_messages \in {<<>>, StoredRows}
    /\ phase = "boot"
    /\ served = 0
    /\ IdleLocals

-----------------------------------------------------------------------------
(* chat.py:313-322 *)
startup ==
    /\ phase = "boot"
    /\ \E kb_ok \in BOOLEAN : StoreCaches(initialize_team(kb_ok))
    /\ phase' = "serving"
    /\ UNCHANGED <<config_vars, chat_messages, served, kind, pc, message,
                   conversation_id, team, history_context, full_prompt, ai_raw,
                   agent_tag, ai_content, response, hist_data, trace, rows0>>

(* The event loop takes the next request once the previous handler returned. *)
Accept(k, at) ==
    /\ phase = "serving"
    /\ pc \in {"idle", "done"}
    /\ served < MaxRequests
    /\ served' = served + 1
    /\ kind' = k
    /\ pc' = at
    /\ team' = None
    /\ history_context' = <<>>
    /\ full_prompt' = NoPrompt
    /\ ai_raw' = <<>>
    /\ agent_tag' = <<>>
    /\ ai_content' = <<>>
    /\ hist_data' = <<>>
    /\ trace' = <<>>
    /\ rows0' = Len(chat_messages)

(* chat.py:197-199 *)
root ==
    /\ Accept("root", "done")
    /\ message' = NoMessage
    /\ conversation_id' = NoneStr
    /\ init_result' = NotCalled
    /\ response' = [status |-> 200,
                    body |-> [status |-> "healthy", service |-> "AI Chat API"]]
    /\ UNCHANGED <<config_vars, cache_vars, chat_messages, phase>>

(* chat.py:201-221 *)
health_check ==
    /\ Accept("health", "done")
    /\ message' = NoMessage
    /\ conversation_id' = NoneStr
    /\ \E kb_ok \in BOOLEAN :
         LET o == initialize_team(kb_ok)
         IN  /\ StoreCaches(o)
             /\ response' =
                  IF o.raised = NoException
                  THEN [status |-> 200,
                        body |-> [status |-> "healthy",
                                  supabase |-> IF supabase # None THEN "connected"
                                               ELSE "disconnected",
                                  knowledge_base |-> IF o.kb # None THEN "enabled"
                                                     ELSE "disabled",
                                  team_initialized |-> o.team # None]]
                  ELSE [status |-> 200,
                        body |-> [status |-> "unhealthy", error |-> o.raised,
                                  supabase |-> "error", knowledge_base |-> "error"]]
    /\ UNCHANGED <<config_vars, chat_messages, phase>>

(* POST /api/chat arrives: the body is parsed into a ChatRequest. *)
post_chat ==
    /\ Accept("chat", "validate")
    /\ message' \in Messages
    /\ conversation_id' \in ConversationIds
    /\ init_result' = NotCalled
    /\ response' = NoResponse
    /\ UNCHANGED <<config_vars, cache_vars, chat_messages, phase>>

(* chat.py:181-191: a ValueError of the validator is FastAPI's 422, and the
   handler is not called. *)
validate ==
    /\ pc = "validate"
    /\ LET v == validate_message(message)
       IN  IF v.ok
           THEN /\ message' = v.value
                /\ pc' = "init"
                /\ UNCHANGED response
           ELSE /\ response' = [status |-> 422, body |-> [detail |-> v.error]]
                /\ pc' = "done"
                /\ UNCHANGED message
    /\ UNCHANGED <<config_vars, cache_vars, chat_messages, phase, served, kind,
                   conversation_id, team, history_context, full_prompt, ai_raw,
                   agent_tag, ai_content, init_result, hist_data, trace, rows0>>

(* chat.py:302-310: what the handler's except clause turns an exception into *)
InternalError(e) ==
    [status |-> 500,
     body |-> [detail |-> [error |-> "Internal server error",
                           message |-> Exception(e.type, Min(e.len, ERROR_MESSAGE_LIMIT))]]]

(* chat.py:226-228 *)
chat_initialize ==
    /\ pc = "init"
    /\ \E kb_ok \in BOOLEAN :
         LET o == initialize_team(kb_ok)
         IN  /\ StoreCaches(o)
             /\ team' = o.team
             /\ IF o.raised = NoException
                THEN pc' = "log_user" /\ UNCHANGED response
                ELSE pc' = "done" /\ response' = InternalError(o.raised)
    /\ trace' = Append(trace, "initialize_team")
    /\ UNCHANGED <<config_vars, chat_messages, phase, served, kind, message,
                   conversation_id, history_context, full_prompt, ai_raw,
                   agent_tag, ai_content, hist_data, rows0>>
(* chat.py:231, 243, 282: `if supabase and req.conversation_id` *)
StoreInUse == supabase # None /\ Truthy(conversation_id)

(* chat.py:233-237 *)
UserTurn ==
    [conversation_id |-> conversation_id, role |-> "user",
     content |-> UserContent(MsgSlice(message, USER_CONTENT_LIMIT))]

(* AiTurn with the user turn's role *)
AiTurnAsUser ==
    [conversation_id |-> conversation_id, role |-> "user",
     content |-> AiContent(Take(ai_content, AI_CONTENT_LIMIT))]

(* chat.py:284-288 *)
AiTurn ==
    [conversation_id |-> conversation_id, role |-> "ai",
     content |-> AiContent(Take(ai_content, AI_CONTENT_LIMIT))]

(* log_user_message without its try/except *)
log_user_messageUncaught ==
    /\ pc = "log_user"
    /\ IF StoreInUse
       THEN \E ok \in BOOLEAN :
              IF ok
              THEN /\ chat_messages' = Insert(chat_messages, UserTurn)
                   /\ trace' = Append(trace, "insert:user")
                   /\ pc' = "history"
                   /\ UNCHANGED response
              ELSE /\ trace' = Append(trace, "insert:user:failed")
                   /\ pc' = "done"
                   /\ response' = InternalError(Exception("APIError", 40))
                   /\ UNCHANGED chat_messages
       ELSE pc' = "history" /\ UNCHANGED <<chat_messages, trace, response>>
    /\ UNCHANGED <<config_vars, cache_vars, phase, served, kind, message,
                   conversation_id, team, history_context, full_prompt, ai_raw,
                   agent_tag, ai_content, init_result, hist_data, rows0>>

(* chat.py:230-239: the insert's failure is logged and swallowed *)
log_user_message ==
    /\ pc = "log_user"
    /\ IF StoreInUse
       THEN \E ok \in BOOLEAN :
              IF ok
              THEN /\ chat_messages' = Insert(chat_messages, UserTurn)
                   /\ trace' = Append(trace, "insert:user")
              ELSE /\ trace' = Append(trace, "insert:user:failed")
                   /\ UNCHANGED chat_messages
       ELSE UNCHANGED <<chat_messages, trace>>
    /\ pc' = "history"
    /\ UNCHANGED <<config_vars, cache_vars, phase, served, kind, message,
                   conversation_id, team, history_context, full_prompt, ai_raw,
                   agent_tag, ai_content, response, init_result, hist_data, rows0>>

(* chat.py:256: one "role: content" line per turn *)
Lines(msgs) ==
    [i \in 1..Len(msgs) |-> [role |-> msgs[i].role, content |-> msgs[i].content]]

(* fetch_history without the reversal *)
fetch_historyNoReverse ==
    /\ pc = "history"
    /\ IF StoreInUse
       THEN \E ok \in BOOLEAN :
              IF ok
              THEN LET data == Select(chat_messages, conversation_id, HISTORY_LIMIT)
                   IN  /\ hist_data' = data
                       /\ history_context' = IF data # <<>> THEN Lines(data) ELSE <<>>
                       /\ trace' = Append(trace, "select")
              ELSE /\ trace' = Append(trace, "select:failed")
                   /\ UNCHANGED <<hist_data, history_context>>
       ELSE UNCHANGED <<hist_data, history_context, trace>>
    /\ pc' = "run"
    /\ UNCHANGED <<config_vars, cache_vars, chat_messages, phase, served, kind,
                   message, conversation_id, team, full_prompt, ai_raw, agent_tag,
                   ai_content, response, init_result, rows0>>

(* chat.py:241-259: the newest HISTORY_LIMIT rows, reversed; a failure leaves
   history_context empty *)
fetch_history ==
    /\ pc = "history"
    /\ IF StoreInUse
       THEN \E ok \in BOOLEAN :
              IF ok
              THEN LET data == Select(chat_messages, conversation_id, HISTORY_LIMIT)
                   IN  /\ hist_data' = data
                       /\ history_context' =
                            IF data # <<>> THEN Lines(Reverse(data)) ELSE <<>>
                       /\ trace' = Append(trace, "select")
              ELSE /\ trace' = Append(trace, "select:failed")
                   /\ UNCHANGED <<hist_data, history_context>>
       ELSE UNCHANGED <<hist_data, history_context, trace>>
    /\ pc' = "run"
    /\ UNCHANGED <<config_vars, cache_vars, chat_messages, phase, served, kind,
                   message, conversation_id, team, full_prompt, ai_raw, agent_tag,
                   ai_content, response, init_result, rows0>>

(* What team.run(full_prompt) can do: return a reply or raise. *)
RunOutcomes ==
    {[raised |-> NoException, content |-> t] : t \in RunOutputs}
    \cup {[raised |-> Exception("Exception", n), content |-> <<>>] :
            n \in {ERROR_MESSAGE_LIMIT - 1, ERROR_MESSAGE_LIMIT + 1}}

(* Whether the team has a member that searches the knowledge base. *)
SearchEnabled(t) == \E i \in 1..Len(t.members) : t.members[i].search_knowledge

(* run_ai answering a failure with a 200 reply tagged ERROR *)
run_aiErrorReply ==
    /\ pc = "run"
    /\ full_prompt' = [history |-> history_context, query |-> message]
    /\ \E out \in RunOutcomes,
          searched \in (IF SearchEnabled(team) THEN BOOLEAN ELSE {FALSE}) :
         /\ trace' = trace \o <<"team.run">>
                           \o (IF searched THEN <<"knowledge.search">> ELSE << >>)
                           \o (IF out.raised = NoException THEN << >>
                               ELSE <<"team.run:raised">>)
         /\ IF out.raised = NoException
            THEN /\ ai_raw' = out.content
                 /\ pc' = "parse"
                 /\ UNCHANGED response
            ELSE /\ pc' = "done"
                 /\ response' = [status |-> 200,
                                 body |-> [content |-> out.raised,
                                           agent |-> <<"E", "R", "R", "O", "R">>]]
                 /\ UNCHANGED ai_raw
    /\ UNCHANGED <<config_vars, cache_vars, chat_messages, phase, served, kind,
                   message, conversation_id, team, history_context, agent_tag,
                   ai_content, init_result, hist_data, rows0>>

(* chat.py:261-266 and, when team.run raises, 302-310 *)
run_ai ==
    /\ pc = "run"
    /\ full_prompt' = [history |-> history_context, query |-> message]
    /\ \E out \in RunOutcomes,
          searched \in (IF SearchEnabled(team) THEN BOOLEAN ELSE {FALSE}) :
         /\ trace' = trace \o <<"team.run">>
                           \o (IF searched THEN <<"knowledge.search">> ELSE << >>)
                           \o (IF out.raised = NoException THEN << >>
                               ELSE <<"team.run:raised">>)
         /\ IF out.raised = NoException
            THEN /\ ai_raw' = out.content
                 /\ pc' = "parse"
                 /\ UNCHANGED response
            ELSE /\ pc' = "done"
                 /\ response' = InternalError(out.raised)
                 /\ UNCHANGED ai_raw
    /\ UNCHANGED <<config_vars, cache_vars, chat_messages, phase, served, kind,
                   message, conversation_id, team, history_context, agent_tag,
                   ai_content, init_result, hist_data, rows0>>

(* chat.py:268-279 *)
parse_response ==
    /\ pc = "parse"
    /\ agent_tag' = AgentTag(ai_raw)
    /\ ai_content' = CleanContent(ai_raw)
    /\ pc' = "log_ai"
    /\ UNCHANGED <<config_vars, cache_vars, chat_messages, phase, served, kind,
                   message, conversation_id, team, history_context, full_prompt,
                   ai_raw, response, init_result, hist_data, trace, rows0>>

(* chat.py:281-300 *)
log_ai_response ==
    /\ pc = "log_ai"
    /\ IF StoreInUse
       THEN \E ok \in BOOLEAN :
              IF ok
              THEN /\ chat_messages' = Insert(chat_messages, AiTurn)
                   /\ trace' = Append(trace, "insert:ai")
              ELSE /\ trace' = Append(trace, "insert:ai:failed")
                   /\ UNCHANGED chat_messages
       ELSE UNCHANGED <<chat_messages, trace>>
    /\ response' = [status |-> 200,
                    body |-> [choices |-> << [message |-> [content |-> ai_content,
                                                            role |-> "ai"]] >>,
                              agent |-> agent_tag]]
    /\ pc' = "done"
    /\ UNCHANGED <<config_vars, cache_vars, phase, served, kind, message,
                   conversation_id, team, history_context, full_prompt, ai_raw,
                   agent_tag, ai_content, init_result, hist_data, rows0>>

Next ==
    \/ startup
    \/ root
    \/ health_check
    \/ post_chat
    \/ validate
    \/ chat_initialize
    \/ log_user_message
    \/ fetch_history
    \/ run_ai
    \/ parse_response
    \/ log_ai_response

Spec == Init /\ [][Next]_vars
-----------------------------------------------------------------------------
(* The response-tag extraction on its own: team.run has just returned, with any
   of the bounded texts as its reply. *)

InitExtract ==
    /\ GROQ_API_KEY = "set"
    /\ OPENAI_API_KEY = NoneStr
    /\ SUPABASE_DB_URL = NoneStr
    /\ supabase = None
    /\ agno_imported = TRUE
    /\ _team_cache = [oid |-> 1, members |-> Members(None)]
    /\ _knowledge_base_cache = None
    /\ teams_built = 1
    /\ kbs_built = 0
    /\ chat_messages = <<>>
    /\ phase = "serving"
    /\ served = 1
    /\ kind = "chat"
    /\ pc = "parse"
    /\ message = [lead |-> 0, body |-> 1, trail |-> 0]
    /\ conversation_id = NoneStr
    /\ team = _team_cache
    /\ history_context = <<>>
    /\ full_prompt = [history |-> <<>>, query |-> message]
    /\ ai_raw \in BoundedTexts
    /\ agent_tag = <<>>
    /\ ai_content = <<>>
    /\ response = NoResponse
    /\ init_result = [called |-> TRUE, raised |-> NoException, team |-> _team_cache,
                      kb |-> None, hit |-> TRUE]
    /\ hist_data = <<>>
    /\ trace = <<"initialize_team", "team.run">>
    /\ rows0 = 0

NextExtract ==
    \/ parse_response
    \/ log_ai_response

SpecExtract == InitExtract /\ [][NextExtract]_vars
-----------------------------------------------------------------------------
(* Properties *)

TagNames == << <<"T", "E", "C", "H">>, <<"D", "A", "T", "A">>, <<"D", "O", "C", "S">>,
               <<"M", "E", "M", "O", "R", "Y">>, <<"T", "E", "A", "M">> >>

Present(text) == {i \in 1..Len(TAGS) : Contains(text, TAGS[i])}

Leading(text) == {i \in 1..Len(TAGS) : StartsWith(text, TAGS[i])}

(* The places (0-based offsets) at which marker t occurs in text s. *)
Places(s, t) == {k \in 0..(Len(s) - Len(t)) : SubSeq(s, k + 1, k + Len(t)) = t}

Without(s, k, t) == SubSeq(s, 1, k) \o SubSeq(s, k + Len(t) + 1, Len(s))

(* The reply has been parsed: agent_tag and ai_content are what the client gets. *)
Parsed == kind = "chat" /\ pc = "log_ai"

(* C7, as stated: a marker is recognised anywhere in the raw text, the tag is
   that match's name, and that same match is removed from the returned text
   (compared up to surrounding whitespace). *)
C7_Original ==
    Parsed /\ Present(ai_raw) # {} =>
        \E i \in Present(ai_raw) :
            /\ agent_tag = TagNames[i]
            /\ \E k \in Places(ai_raw, TAGS[i]) :
                   StrStrip(ai_content) = StrStrip(Without(ai_raw, k, TAGS[i]))

(* C7, amended: the tag is the name of the first marker, in the vocabulary's
   order TECH, DATA, DOCS, MEMORY, TEAM, that occurs anywhere in the raw text
   (TEAM when none occurs); a marker is removed only when the raw text begins
   with it: then that leading marker is cut and the rest is stripped of
   surrounding whitespace, otherwise the text is returned unchanged. *)
C7_Amended ==
    Parsed =>
        /\ Present(ai_raw) = {} => agent_tag = <<"T", "E", "A", "M">>
        /\ \A i \in Present(ai_raw) :
               (\A j \in Present(ai_raw) : i <= j) => agent_tag = TagNames[i]
        /\ Leading(ai_raw) = {} => ai_content = ai_raw
        /\ \A i \in Leading(ai_raw) :
               /\ ai_content = StrStrip(Drop(ai_raw, Len(TAGS[i])))
               /\ Len(ai_content) <= Len(ai_raw) - Len(TAGS[i])

(* C7's case: "[[TECH]] a" gives the tag TECH and the text "a". *)
C7_Witness ==
    /\ Parsed
    /\ ai_raw = <<"[", "[", "T", "E", "C", "H", "]", "]", " ", "a">>
    /\ agent_tag = <<"T", "E", "C", "H">>
    /\ ai_content = <<"a">>

(* The raw text begins with a marker that is followed, after optional
   whitespace, by another marker. *)
DoubleLeading(text) ==
    \E i \in Leading(text) :
        \E k \in 0..(Len(text) - Len(TAGS[i])) :
            /\ \A n \in 1..k : text[Len(TAGS[i]) + n] \in Whitespace
            /\ Leading(Drop(text, Len(TAGS[i]) + k)) # {}

(* C8, as stated: extraction applied to the cleaned text it produced yields the
   same cleaned text, for every raw text. *)
C8_Original == Parsed => CleanContent(ai_content) = ai_content

(* C8, amended: extraction applied again to the cleaned text yields the same
   cleaned text exactly when the raw text does not begin with two markers in
   succession (separated by whitespace at most); when it does, the second
   extraction cuts the second marker. *)
C8_Amended ==
    Parsed => (CleanContent(ai_content) = ai_content <=> ~DoubleLeading(ai_raw))

(* C8's case: a leading marker was cut and a second extraction changes nothing. *)
C8_Witness ==
    /\ Parsed
    /\ Leading(ai_raw) # {}
    /\ ai_content # <<>>
    /\ Present(ai_content) # {}
    /\ CleanContent(ai_content) = ai_content
-----------------------------------------------------------------------------
(* Properties of the request handling *)

Has(e) == \E i \in 1..Len(trace) : trace[i] = e

StoreFailed == Has("insert:user:failed") \/ Has("select:failed") \/ Has("insert:ai:failed")

ChatDone == kind = "chat" /\ pc = "done"

(* The request in flight was rejected by validation and nothing ran for it. *)
RejectedUntouched ==
    /\ pc = "done"
    /\ response.status = 422
    /\ trace = <<>>
    /\ init_result = NotCalled
    /\ Len(chat_messages) = rows0

(* C1, as stated: a message that is empty, whitespace-only or longer than 5000
   characters is rejected by validation, and nothing runs for the request. *)
C1_Original ==
    [][ /\ pc = "validate"
           /\ (message.body = 0 \/ StrLen(message) > MAX_MESSAGE_LENGTH)
           => RejectedUntouched' /\ UNCHANGED <<cache_vars, chat_messages>>
        /\ kind' = "chat" /\ response'.status = 422 => RejectedUntouched' ]_vars

(* C1, amended: a message that is empty, whitespace-only or longer than 5000
   characters once its surrounding whitespace is stripped is rejected by
   validation (422) before the handler is called: no initialize_team call, no
   model call, no history query and no insert happen for it. *)
C1_Amended ==
    [][ /\ pc = "validate"
           /\ (message.body = 0 \/ message.body > MAX_MESSAGE_LENGTH)
           => RejectedUntouched' /\ UNCHANGED <<cache_vars, chat_messages>>
        /\ kind' = "chat" /\ response'.status = 422 => RejectedUntouched' ]_vars

(* C1's case: an over-length message has been rejected. *)
C1_Witness ==
    /\ ChatDone
    /\ message.body > MAX_MESSAGE_LENGTH
    /\ RejectedUntouched

Rank(e) ==
    CASE e = "initialize_team" -> 0
      [] e \in {"insert:user", "insert:user:failed"} -> 1
      [] e \in {"select", "select:failed"} -> 2
      [] e \in {"team.run", "knowledge.search", "team.run:raised"} -> 3
      [] e \in {"insert:ai", "insert:ai:failed"} -> 4

(* The two rows a request appended: its user turn, then its assistant turn. *)
TwoRowsAppended ==
    /\ Len(chat_messages) = rows0 + 2
    /\ chat_messages[rows0 + 1].role = "user"
    /\ chat_messages[rows0 + 1].conversation_id = conversation_id
    /\ chat_messages[rows0 + 1].content.msg = MsgSlice(message, USER_CONTENT_LIMIT)
    /\ chat_messages[rows0 + 2].role = "ai"
    /\ chat_messages[rows0 + 2].conversation_id = conversation_id
    /\ chat_messages[rows0 + 2].content.text = Take(ai_content, AI_CONTENT_LIMIT)
    /\ chat_messages[rows0 + 1].created_at < chat_messages[rows0 + 2].created_at

(* C2, as stated: a successful request that carries a conversation_id, against a
   working store, appends exactly two rows. *)
C2_Original ==
    /\ ChatDone
    /\ response.status = 200
    /\ supabase # None
    /\ conversation_id # NoneStr
    /\ ~StoreFailed
    => TwoRowsAppended

(* C2, amended: within one chat request that carries a non-empty
   conversation_id and runs against a working configuration, the user-turn
   insert happens before team.run, which happens before the assistant-turn
   insert; a successful request appends exactly two rows for that conversation,
   the user turn first and the assistant turn (role "ai") second. *)
C2_Amended ==
    kind = "chat" =>
        /\ \A i, j \in 1..Len(trace) : i < j => Rank(trace[i]) <= Rank(trace[j])
        /\ \A i, j \in 1..Len(trace) :
               i < j /\ Rank(trace[i]) = Rank(trace[j]) => Rank(trace[i]) = 3
        /\ StoreInUse /\ Has("team.run") =>
               Has("insert:user") \/ Has("insert:user:failed")
        /\ Has("insert:ai") => Has("team.run")
        /\ pc = "done" /\ response.status = 200 /\ StoreInUse /\ ~StoreFailed =>
               /\ TwoRowsAppended
               /\ \E i, j, k \in 1..Len(trace) :
                      /\ i < j /\ j < k
                      /\ trace[i] = "insert:user"
                      /\ trace[j] = "team.run"
                      /\ trace[k] = "insert:ai"

(* C2's case: a request of conversation c1 succeeded and logged both turns. *)
C2_Witness ==
    /\ ChatDone
    /\ response.status = 200
    /\ conversation_id = "c1"
    /\ Has("insert:user")
    /\ Has("insert:ai")
    /\ TwoRowsAppended

(* C3, as stated: when team.run throws, the client still receives a 200
   response with a {content, agent} payload carrying an error tag. *)
C3_Original ==
    ChatDone /\ Has("team.run:raised") =>
        /\ response.status = 200
        /\ "agent" \in DOMAIN response.body

(* C3, amended: when team.run throws, the failure is caught by the handler's
   except clause and answered as HTTP 500 with the detail
   {error: "Internal server error", message: at most 200 characters of the
   exception's text}; no assistant turn is logged for the request. *)
C3_Amended ==
    ChatDone /\ Has("team.run:raised") =>
        /\ response.status = 500
        /\ response.body.detail.error = "Internal server error"
        /\ response.body.detail.message.len <= ERROR_MESSAGE_LIMIT
        /\ ~Has("insert:ai") /\ ~Has("insert:ai:failed")
        /\ Len(chat_messages) <= rows0 + 1

(* C3's case: the user turn was logged, then team.run threw. *)
C3_Witness ==
    /\ ChatDone
    /\ Has("team.run:raised")
    /\ Has("insert:user")
    /\ response.status = 500
    /\ response.body.detail.message.len = ERROR_MESSAGE_LIMIT

(* A step that calls initialize_team: startup, /health, or the chat handler. *)
InitCallStep ==
    \/ phase = "boot" /\ phase' = "serving"
    \/ served' = served + 1 /\ kind' = "health"
    \/ pc = "init" /\ pc' # "init"

(* C4: the cache only moves from None to a team; Team and Knowledge are
   constructed at most once per process; every initialize_team call made while
   the cache is set leaves it alone and returns the cached pair. *)
C4_Singleton ==
    [][ /\ _team_cache # None =>
              UNCHANGED <<_team_cache, _knowledge_base_cache, teams_built, kbs_built>>
        /\ teams_built' <= 1 /\ kbs_built' <= 1
        /\ _team_cache' # None => teams_built' = 1 /\ _team_cache'.oid = 1
        /\ InitCallStep /\ _team_cache # None =>
              /\ init_result'.called /\ init_result'.hit
              /\ init_result'.raised = NoException
              /\ init_result'.team = _team_cache
              /\ init_result'.kb = _knowledge_base_cache ]_vars

(* C4's case: a second request's initialize_team call was served from the cache. *)
C4_Witness ==
    /\ served = 2
    /\ pc = "done"
    /\ init_result.called /\ init_result.hit
    /\ init_result.team = _team_cache
    /\ teams_built = 1

(* C5: when GROQ_API_KEY is missing, a (valid) chat request is answered with
   503, and no log write or model call is made for it. *)
C5_Claim ==
    ChatDone /\ ~Truthy(GROQ_API_KEY) /\ response.status # 422 =>
        /\ response.status = 503
        /\ Len(chat_messages) = rows0
        /\ ~Has("team.run")

(* C6: a failure of the user-turn insert, the history query or the
   assistant-turn insert, in any combination, does not end the request: the
   model call still runs (with empty history when the query failed) and, unless
   team.run itself throws, the client receives the normal 200 response. *)
C6_Swallowed ==
    kind = "chat" /\ StoreFailed =>
        /\ pc = "done" => Has("team.run")
        /\ Has("select:failed") /\ Has("team.run") => full_prompt.history = <<>>
        /\ Has("team.run") => full_prompt.query = message
        /\ pc = "done" /\ ~Has("team.run:raised") =>
               /\ response.status = 200
               /\ response.body.agent = agent_tag
               /\ response.body.choices[1].message.content = ai_content
               /\ Len(ai_raw) > 0
        /\ Has("insert:user:failed") /\ Has("insert:ai:failed") =>
               Len(chat_messages) = rows0

(* C6's case: all three store operations failed and the reply was still sent. *)
C6_Witness ==
    /\ ChatDone
    /\ Has("insert:user:failed") /\ Has("select:failed") /\ Has("insert:ai:failed")
    /\ response.status = 200

(* The conversation's rows in the table, oldest first. *)
ConversationRows ==
    SelectSeq(chat_messages, LAMBDA r : r.conversation_id = conversation_id)

(* C9: the history placed in the prompt is the store's newest-first result
   (limit 6) reversed: the same turns, the same count, oldest first; that is,
   the conversation's newest (up to 6) turns in chronological order. *)
C9_History ==
    kind = "chat" /\ Has("select") =>
        /\ Len(history_context) = Len(hist_data)
        /\ Len(hist_data) <= HISTORY_LIMIT
        /\ \A i, j \in 1..Len(hist_data) :
               i < j => hist_data[i].created_at > hist_data[j].created_at
        /\ \A i \in 1..Len(hist_data) :
               /\ history_context[i].role = hist_data[Len(hist_data) + 1 - i].role
               /\ history_context[i].content = hist_data[Len(hist_data) + 1 - i].content
        /\ pc = "run" =>
               LET n == Len(ConversationRows)
                   k == Min(n, HISTORY_LIMIT)
               IN  /\ Len(history_context) = k
                   /\ \A i \in 1..k :
                          /\ history_context[i].role = ConversationRows[n - k + i].role
                          /\ history_context[i].content
                                = ConversationRows[n - k + i].content
        /\ Has("team.run") => full_prompt.history = history_context

(* C9's case: the conversation holds more than 6 turns and 6 were fetched. *)
C9_Witness ==
    /\ kind = "chat"
    /\ pc = "run"
    /\ Has("select")
    /\ Len(ConversationRows) > HISTORY_LIMIT
    /\ Len(history_context) = HISTORY_LIMIT

(* Without a database URL: no knowledge base, no search-enabled member, no
   knowledge search. *)
KnowledgeAbsent ==
    /\ _knowledge_base_cache = None
    /\ kbs_built = 0
    /\ _team_cache # None => ~SearchEnabled(_team_cache)
    /\ ~Has("knowledge.search")

HealthDone == kind = "health" /\ pc = "done"

(* C10, as stated: without a database URL the knowledge base is absent for the
   whole process, no search-enabled specialist is built, knowledge search is
   never invoked, and /health reports the knowledge base as disabled. *)
C10_Original ==
    ~Truthy(SUPABASE_DB_URL) =>
        /\ KnowledgeAbsent
        /\ HealthDone => response.body.knowledge_base = "disabled"

(* C10, amended: without a database URL the knowledge base is absent for the
   whole process, no search-enabled specialist is built and knowledge search is
   never invoked; /health reports the knowledge base as disabled whenever team
   initialisation succeeds, and as "error" (status unhealthy) when it fails,
   as it does without GROQ_API_KEY; it never reports it enabled. *)
C10_Amended ==
    ~Truthy(SUPABASE_DB_URL) =>
        /\ KnowledgeAbsent
        /\ HealthDone =>
               /\ response.body.knowledge_base
                     = IF Truthy(GROQ_API_KEY) /\ agno_imported THEN "disabled" ELSE "error"
               /\ response.body.status
                     = IF Truthy(GROQ_API_KEY) /\ agno_imported THEN "healthy" ELSE "unhealthy"

(* C10's case: the embedding key is set but no database URL is, and /health
   answered. *)
C10_Witness ==
    /\ ~Truthy(SUPABASE_DB_URL)
    /\ Truthy(OPENAI_API_KEY)
    /\ HealthDone
    /\ _team_cache # None
    /\ response.body.knowledge_base = "disabled"

====
